---- MODULE Spec2Model ----
(***************************************************************************)
(* Job orchestration of the financial document analyzer: the job record   *)
(* (database.py), the immediate path (main.py analyze_document), the       *)
(* queued path (main.py analyze_document_async, celery_worker.py           *)
(* analyze_document_task) and the four-task crew they run.                 *)
(***************************************************************************)
EXTENDS Integers, Sequences, FiniteSets, TLC

\* Number of uploads (job ids) followed by the model.
NumJobs == 1
Jobs == 1..NumJobs

\* celery_worker.py:32  @celery_app.task(..., max_retries=2)
max_retries == 2

\* A column holding SQL NULL / Python None.
NULL == "NULL"

\* database.py:25-29  AnalysisStatus
PENDING == "pending"
PROCESSING == "processing"
COMPLETED == "completed"
FAILED == "failed"

\* main.py:88-93: the tasks run_crew passes to Crew(..., Process.sequential).
CrewTasks == <<"verification_task", "financial_analysis_task",
               "risk_assessment_task", "investment_analysis_task">>

\* Variant of WorkerCrewTasks with risk assessment listed before financial
\* analysis.
WorkerCrewTasks_risk_first ==
    <<"verification_task", "risk_assessment_task",
      "financial_analysis_task", "investment_analysis_task">>

\* celery_worker.py:59-64: the tasks the worker passes to Crew(...).
WorkerCrewTasks == <<"verification_task", "financial_analysis_task",
                     "risk_assessment_task", "investment_analysis_task">>

\* A string is a sequence of atoms: " " and "\n" are whitespace characters,
\* any other atom is a piece of text without whitespace (a character, a
\* number, a word).  Lengths, slices and thresholds count atoms.
\* main.py:117 / 153 / 198 / 222: the default and fallback query.
DEFAULT_QUERY == <<"Analyze this financial document for investment insights">>

\* Query form fields a client submits: empty, whitespace only, plain text,
\* text with surrounding whitespace.
Queries == {<<>>, <<" ">>, <<"q">>, <<" ", "q", " ">>}

\* Messages str(exc) of the exceptions a crew task can raise (LLM/tool errors).
TaskErrors == {"task error A", "task error B"}
\* Message of the OSError raised when the report file cannot be written.
WriteError == "OSError: cannot write report"

\* What an uploaded temporary file can hold: a PDF with text, a PDF without
\* extractable text, bytes fitz cannot open.  "absent" = no file at that path.
FileKinds == {"pdf", "blank_pdf", "garbage"}
ABSENT == "absent"

VARIABLES
    db,              \* analysis_results table: committed row per job id
    files,           \* DATA_DIR: job id -> kind of the temporary file, or ABSENT
    outputs,         \* OUTPUTS_DIR: job ids whose report file has been written
    path,            \* "none" | "sync" | "async" | "unknown" per job id
    pc,              \* position of the handler / worker attempt of the job
    request_retries, \* self.request.retries of the job's work item
    document_text,   \* local document_text of the running attempt
    stage_outputs,   \* outputs of the crew tasks finished in the running attempt
    exc,             \* str(exc) of the exception the running attempt caught
    outcome,         \* how the last handler / attempt left its try block
    response,        \* HTTP response of the submitting handler
    attempts,        \* history: number of worker executions of the job
    terminal_writes, \* history: committed writes of COMPLETED or FAILED
    form_query,      \* the query form field of the submission
    query,           \* local "query" of the handler / argument of the task
    crew_query,      \* {inputs["query"]} of the running crew.kickoff, else {}
    countdown,       \* countdown of the last retry published for the job
    task_inputs,     \* {inputs} last interpolated into the module-level Task
                     \* objects of the API process (task.py), {} before any
    doc_pages,       \* extract_pdf_text: page.get_text() of each page of doc
    pages_read,      \* extract_pdf_text: pages the for loop has been through
    full_report,     \* extract_pdf_text: local full_report
    extracted,       \* extract_pdf_text: {returned text}, {} before the return
    financial_text,  \* argument of analyze_investment_data / assess_risk_factors
    metric_out,      \* {what analyze_investment_data returned}, {} before
    risk_out         \* {what assess_risk_factors returned}, {} before

\* The variables of the job orchestration and those of the text tools.
job_vars == <<db, files, outputs, path, pc, request_retries, document_text,
              stage_outputs, exc, outcome, response, attempts,
              terminal_writes, form_query, query, crew_query, countdown,
              task_inputs>>

tool_vars == <<doc_pages, pages_read, full_report, extracted, financial_text,
               metric_out, risk_out>>

vars == <<db, files, outputs, path, pc, request_retries, document_text,
          stage_outputs, exc, outcome, response, attempts, terminal_writes,
          form_query, query, crew_query, countdown, task_inputs,
          doc_pages, pages_read, full_report, extracted, financial_text,
          metric_out, risk_out>>

(***************************************************************************)
(* Pure pieces of the code.                                                *)
(***************************************************************************)

\* The atoms str.strip() removes and the regex class \s matches.
Whitespace == {" ", "\n"}

\* str.strip() on a sequence of atoms.
RECURSIVE lstrip(_)
lstrip(s) ==
    IF s # <<>> /\ Head(s) \in Whitespace THEN lstrip(Tail(s)) ELSE s

RECURSIVE rstrip(_)
rstrip(s) ==
    IF s # <<>> /\ s[Len(s)] \in Whitespace
    THEN rstrip(SubSeq(s, 1, Len(s) - 1))
    ELSE s

strip(s) == rstrip(lstrip(s))

\* Variant of DefaultIfBlank without the whitespace test.
DefaultIfBlank_only_empty(q) == IF q = <<>> THEN DEFAULT_QUERY ELSE q

\* main.py:152-153 / 221-222:
\*   if not query or query.strip() == "": query = "Analyze this ..."
DefaultIfBlank(q) == IF q = <<>> \/ strip(q) = <<>> THEN DEFAULT_QUERY ELSE q

\* main.py:133-138 / 223-228: AnalysisResult(..., query=q, status=PENDING);
\* the other columns take their defaults (database.py:44-47).
AnalysisResult(q) ==
    [status |-> PENDING, query |-> q, result |-> NULL, error |-> NULL,
     completed_at |-> NULL]

\* Variant of SetProcessing that commits nothing before the work starts.
SetProcessing_not_committed(record) == record

\* record.status = AnalysisStatus.PROCESSING; db.commit()
SetProcessing(record) == [record EXCEPT !.status = PROCESSING]

\* record.status = COMPLETED; record.result = ...; record.completed_at = utcnow()
SetCompleted(record, result) ==
    [record EXCEPT !.status = COMPLETED, !.result = result,
                   !.completed_at = "utcnow"]

\* Variant of SetFailed that also stores the transcript of the tasks that
\* had finished.
SetFailed_saves_partial(record, e) ==
    [record EXCEPT !.status = FAILED, !.error = e,
                   !.result = "partial transcript"]

\* Variant of SetFailed that records an error only when none is recorded yet.
SetFailed_keeps_first_error(record, e) ==
    [record EXCEPT !.status = FAILED,
                   !.error = IF record.error = NULL THEN e ELSE record.error]

\* record.status = FAILED; record.error = str(exc); db.commit()
SetFailed(record, e) == [record EXCEPT !.status = FAILED, !.error = e]

\* tools.py:19-47 extract_pdf_text: returns a string in every case.
extract_pdf_text(kind) ==
    CASE kind = ABSENT      -> "Error: File not found"
      [] kind = "garbage"   -> "Error opening PDF"
      [] kind = "blank_pdf" -> "The PDF contained no extractable text."
      [] OTHER              -> "document text"

\* Variant of RetryAllowed that gives up one attempt early.
RetryAllowed_one_short(retries) == ~(retries + 1 >= max_retries)

\* Task.retry of a task with max_retries=2: the retry is published unless
\* request.retries + 1 exceeds max_retries, in which case exc is re-raised.
RetryAllowed(retries) == ~(retries + 1 > max_retries)

\* Variant of RetryCountdown that multiplies by the retry count itself.
RetryCountdown_from_zero(retries) == 30 * retries

\* celery_worker.py:103: countdown=30 * (self.request.retries + 1)
RetryCountdown(retries) == 30 * (retries + 1)

\* Variant of RemoveTempFile in which the "Record not found" return leaves
\* the function before the cleanup.
RemoveTempFile_not_on_early_return(fs, j) ==
    IF outcome[j] = "notfound" THEN fs ELSE [fs EXCEPT ![j] = ABSENT]

\* finally: if os.path.exists(file_path): os.remove(file_path)
RemoveTempFile(fs, j) == [fs EXCEPT ![j] = ABSENT]

\* str(result) of crew.kickoff: the output of the last task.
CrewResult(outs) == outs[Len(outs)]

HasRecord(j) == j \in DOMAIN db

\* Variant of NotFoundExit in which the missing row raises instead of
\* returning.
NotFoundExit_raises == "except"

\* celery_worker.py:51-53: "return {"error": "Record not found"}" leaves the
\* try block for the finally block.
NotFoundExit == "finally"

\* main.py:98-102: the inputs kickoff interpolates into the descriptions
\* ("{query}", "{document_text}") of the tasks it was given.
KickoffInputs(q, text) == [query |-> q, document_text |-> text]

\* The task list of the crew built for job j (run_crew or the worker).
TasksOf(j) == IF path[j] = "sync" THEN CrewTasks ELSE WorkerCrewTasks

(***************************************************************************)
(* Initial state: empty table, empty directories, nothing submitted.       *)
(***************************************************************************)
InitFor(J) ==
    /\ db = <<>>
    /\ files = [j \in J |-> ABSENT]
    /\ outputs = {}
    /\ path = [j \in J |-> "none"]
    /\ pc = [j \in J |-> "new"]
    /\ request_retries = [j \in J |-> 0]
    /\ document_text = [j \in J |-> NULL]
    /\ stage_outputs = [j \in J |-> <<>>]
    /\ exc = [j \in J |-> NULL]
    /\ outcome = [j \in J |-> "none"]
    /\ response = [j \in J |-> "none"]
    /\ attempts = [j \in J |-> 0]
    /\ terminal_writes = [j \in J |-> 0]
    /\ form_query = [j \in J |-> <<>>]
    /\ query = [j \in J |-> <<>>]
    /\ crew_query = [j \in J |-> {}]
    /\ countdown = [j \in J |-> 0]
    /\ task_inputs = {}

\* No text tool is being called.
ToolsIdle ==
    /\ doc_pages = <<>>
    /\ pages_read = 0
    /\ full_report = <<>>
    /\ extracted = {}
    /\ financial_text = <<>>
    /\ metric_out = {}
    /\ risk_out = {}

Init == InitFor(Jobs) /\ ToolsIdle

(***************************************************************************)
(* Immediate path: main.py analyze_document.                               *)
(***************************************************************************)

\* main.py:130-140: the PENDING row is added and committed.
analyze_document_create(j) ==
    /\ pc[j] = "new"
    /\ path' = [path EXCEPT ![j] = "sync"]
    /\ \E q \in Queries :
         /\ form_query' = [form_query EXCEPT ![j] = q]
         /\ query' = [query EXCEPT ![j] = q]
         /\ db' = db @@ (j :> AnalysisResult(q))
    /\ pc' = [pc EXCEPT ![j] = "sync_created"]
    /\ UNCHANGED task_inputs
    /\ UNCHANGED tool_vars
    /\ UNCHANGED <<files, outputs, request_retries, document_text,
                   stage_outputs, exc, outcome, response, attempts,
                   terminal_writes, crew_query, countdown>>

\* main.py:142-155: read the upload; too large raises HTTPException(413),
\* which "except HTTPException: raise" passes on; otherwise the temporary
\* file is written, a blank query is replaced and PROCESSING is committed.
analyze_document_upload(j) ==
    /\ pc[j] = "sync_created"
    /\ \E too_large \in BOOLEAN, kind \in FileKinds :
         IF too_large
         THEN /\ response' = [response EXCEPT ![j] = "413"]
              /\ pc' = [pc EXCEPT ![j] = "finally"]
              /\ UNCHANGED <<files, db, query>>
         ELSE /\ files' = [files EXCEPT ![j] = kind]
              /\ query' = [query EXCEPT ![j] = DefaultIfBlank(@)]
              /\ db' = [db EXCEPT ![j] = SetProcessing(db[j])]
              /\ pc' = [pc EXCEPT ![j] = "extract"]
              /\ UNCHANGED response
    /\ UNCHANGED task_inputs
    /\ UNCHANGED tool_vars
    /\ UNCHANGED <<outputs, path, request_retries, document_text,
                   stage_outputs, exc, outcome, attempts, terminal_writes,
                   form_query, crew_query, countdown>>

(***************************************************************************)
(* Queued path, submission: main.py analyze_document_async.                *)
(***************************************************************************)

\* main.py:209-219: too large raises HTTPException(413) before anything is
\* created; otherwise the temporary file is written.
analyze_document_async_upload(j) ==
    /\ pc[j] = "new"
    /\ path' = [path EXCEPT ![j] = "async"]
    /\ \E q \in Queries :
         /\ form_query' = [form_query EXCEPT ![j] = q]
         /\ query' = [query EXCEPT ![j] = q]
    /\ \E too_large \in BOOLEAN, kind \in FileKinds :
         IF too_large
         THEN /\ response' = [response EXCEPT ![j] = "413"]
              /\ pc' = [pc EXCEPT ![j] = "done"]
              /\ UNCHANGED files
         ELSE /\ files' = [files EXCEPT ![j] = kind]
              /\ pc' = [pc EXCEPT ![j] = "async_written"]
              /\ UNCHANGED response
    /\ UNCHANGED task_inputs
    /\ UNCHANGED tool_vars
    /\ UNCHANGED <<db, outputs, request_retries, document_text,
                   stage_outputs, exc, outcome, attempts, terminal_writes,
                   crew_query, countdown>>

\* main.py:221-230: a blank query is replaced; the PENDING row, with the
\* stripped query, is added and committed.
analyze_document_async_create(j) ==
    /\ pc[j] = "async_written"
    /\ query' = [query EXCEPT ![j] = DefaultIfBlank(@)]
    /\ db' = db @@ (j :> AnalysisResult(strip(query'[j])))
    /\ pc' = [pc EXCEPT ![j] = "async_committed"]
    /\ UNCHANGED task_inputs
    /\ UNCHANGED tool_vars
    /\ UNCHANGED <<files, outputs, path, request_retries, document_text,
                   stage_outputs, exc, outcome, response, attempts,
                   terminal_writes, form_query, crew_query, countdown>>

\* main.py:231-238: analyze_document_task.delay(file_id, query.strip(),
\* file_path) and the accepted reply; from here "query" is the task argument.
analyze_document_async_delay(j) ==
    /\ pc[j] = "async_committed"
    /\ query' = [query EXCEPT ![j] = strip(@)]
    /\ pc' = [pc EXCEPT ![j] = "queued"]
    /\ response' = [response EXCEPT ![j] = "accepted"]
    /\ UNCHANGED task_inputs
    /\ UNCHANGED tool_vars
    /\ UNCHANGED <<db, files, outputs, path, request_retries, document_text,
                   stage_outputs, exc, outcome, attempts, terminal_writes,
                   form_query, crew_query, countdown>>

\* main.py:231: analyze_document_task.delay(...) raises when the broker
\* cannot be reached; the handler has no except / finally, so the exception
\* leaves it as it is and the client gets 500.
analyze_document_async_delay_raises(j) ==
    /\ pc[j] = "async_committed"
    /\ pc' = [pc EXCEPT ![j] = "submit_failed"]
    /\ response' = [response EXCEPT ![j] = "500"]
    /\ UNCHANGED task_inputs
    /\ UNCHANGED tool_vars
    /\ UNCHANGED <<db, files, outputs, path, request_retries, document_text,
                   stage_outputs, exc, outcome, attempts, terminal_writes,
                   form_query, query, crew_query, countdown>>

\* celery_worker.py:32-33: the task is a named broker task; a work item can
\* name an analysis_id that has no row (the row vanished, or never was).
delay_unknown_id(j) ==
    /\ pc[j] = "new"
    /\ path' = [path EXCEPT ![j] = "unknown"]
    /\ \E kind \in FileKinds \cup {ABSENT} :
         files' = [files EXCEPT ![j] = kind]
    /\ query' = [query EXCEPT ![j] = DEFAULT_QUERY]
    /\ pc' = [pc EXCEPT ![j] = "queued"]
    /\ UNCHANGED task_inputs
    /\ UNCHANGED tool_vars
    /\ UNCHANGED <<db, outputs, request_retries, document_text,
                   stage_outputs, exc, outcome, response, attempts,
                   terminal_writes, form_query, crew_query, countdown>>

(***************************************************************************)
(* Queued path, worker: celery_worker.py analyze_document_task.            *)
(***************************************************************************)

\* celery_worker.py:45-56: a worker takes the work item, looks the row up,
\* returns if there is none, otherwise commits PROCESSING.
analyze_document_task_start(j) ==
    /\ pc[j] = "queued"
    /\ attempts' = [attempts EXCEPT ![j] = @ + 1]
    /\ document_text' = [document_text EXCEPT ![j] = NULL]
    /\ stage_outputs' = [stage_outputs EXCEPT ![j] = <<>>]
    /\ exc' = [exc EXCEPT ![j] = NULL]
    /\ IF ~HasRecord(j)
       THEN /\ outcome' = [outcome EXCEPT ![j] = "notfound"]
            /\ pc' = [pc EXCEPT ![j] = NotFoundExit]
            /\ UNCHANGED db
       ELSE /\ db' = [db EXCEPT ![j] = SetProcessing(db[j])]
            /\ pc' = [pc EXCEPT ![j] = "extract"]
            /\ outcome' = [outcome EXCEPT ![j] = "none"]
    /\ UNCHANGED task_inputs
    /\ UNCHANGED tool_vars
    /\ UNCHANGED <<files, outputs, path, request_retries, response,
                   terminal_writes,
                   form_query, query, crew_query, countdown>>

(***************************************************************************)
(* Both paths: extraction, the crew, the COMPLETED commit, the report.     *)
(***************************************************************************)

\* main.py:156, 81-84, 98-102 (run_crew(query=query.strip(), ...)) /
\* celery_worker.py:69-76: the text is extracted and kickoff is called with
\* the query and the text.  run_crew runs in a thread of the API process
\* (asyncio.to_thread) and hands kickoff the Task objects task.py created
\* at import, the same objects for every request; kickoff writes its inputs
\* into their descriptions.
extract(j) ==
    /\ pc[j] = "extract"
    /\ document_text' = [document_text EXCEPT ![j] = extract_pdf_text(files[j])]
    /\ crew_query' = [crew_query EXCEPT
                        ![j] = IF path[j] = "sync" THEN {strip(query[j])}
                                                   ELSE {query[j]}]
    /\ task_inputs' = IF path[j] = "sync"
                      THEN {KickoffInputs(strip(query[j]),
                                          extract_pdf_text(files[j]))}
                      ELSE task_inputs
    /\ pc' = [pc EXCEPT ![j] = "kickoff"]
    /\ UNCHANGED tool_vars
    /\ UNCHANGED <<db, files, outputs, path, request_retries, stage_outputs,
                   exc, outcome, response, attempts, terminal_writes,
                   form_query, query, countdown>>

\* main.py:86-102 / celery_worker.py:57-76: Process.sequential runs the next
\* task of the list; it returns its output ...
task_returns(j) ==
    /\ pc[j] = "kickoff"
    /\ Len(stage_outputs[j]) < Len(TasksOf(j))
    /\ stage_outputs' = [stage_outputs EXCEPT
                           ![j] = Append(@, TasksOf(j)[Len(@) + 1])]
    /\ UNCHANGED task_inputs
    /\ UNCHANGED tool_vars
    /\ UNCHANGED <<db, files, outputs, path, pc, request_retries,
                   document_text, exc, outcome, response, attempts,
                   terminal_writes,
                   form_query, query, crew_query, countdown>>

\* ... or raises: kickoff propagates the exception, and the outputs of the
\* tasks that had finished go with kickoff's frame.
task_raises(j) ==
    /\ pc[j] = "kickoff"
    /\ Len(stage_outputs[j]) < Len(TasksOf(j))
    /\ \E e \in TaskErrors : exc' = [exc EXCEPT ![j] = e]
    /\ stage_outputs' = [stage_outputs EXCEPT ![j] = <<>>]
    /\ pc' = [pc EXCEPT ![j] = "except"]
    /\ UNCHANGED task_inputs
    /\ UNCHANGED tool_vars
    /\ UNCHANGED <<db, files, outputs, path, request_retries, document_text,
                   outcome, response, attempts, terminal_writes,
                   form_query, query, crew_query, countdown>>

\* main.py:157-160 / celery_worker.py:78-81
commit_completed(j) ==
    /\ pc[j] = "kickoff"
    /\ Len(stage_outputs[j]) = Len(TasksOf(j))
    /\ db' = [db EXCEPT ![j] = SetCompleted(db[j], CrewResult(stage_outputs[j]))]
    /\ terminal_writes' = [terminal_writes EXCEPT ![j] = @ + 1]
    /\ pc' = [pc EXCEPT ![j] = "save"]
    /\ UNCHANGED task_inputs
    /\ UNCHANGED tool_vars
    /\ UNCHANGED <<files, outputs, path, request_retries, document_text,
                   stage_outputs, exc, outcome, response, attempts,
                   form_query, query, crew_query, countdown>>

\* main.py:162-172 (save_analysis_output, 30-49) / celery_worker.py:82-95:
\* the report file is written and the handler / task returns ...
save_output_returns(j) ==
    /\ pc[j] = "save"
    /\ outputs' = outputs \cup {j}
    /\ outcome' = [outcome EXCEPT ![j] = "completed"]
    /\ response' = [response EXCEPT
                      ![j] = IF path[j] = "sync" THEN "200" ELSE @]
    /\ pc' = [pc EXCEPT ![j] = "finally"]
    /\ UNCHANGED task_inputs
    /\ UNCHANGED tool_vars
    /\ UNCHANGED <<db, files, path, request_retries, document_text,
                   stage_outputs, exc, attempts, terminal_writes,
                   form_query, query, crew_query, countdown>>

\* ... or os.makedirs / open / write raises OSError inside the try block.
save_output_raises(j) ==
    /\ pc[j] = "save"
    /\ exc' = [exc EXCEPT ![j] = WriteError]
    /\ pc' = [pc EXCEPT ![j] = "except"]
    /\ UNCHANGED task_inputs
    /\ UNCHANGED tool_vars
    /\ UNCHANGED <<db, files, outputs, path, request_retries, document_text,
                   stage_outputs, outcome, response, attempts,
                   terminal_writes,
                   form_query, query, crew_query, countdown>>

\* main.py:176-184: except Exception on the immediate path.
analyze_document_except(j) ==
    /\ pc[j] = "except"
    /\ path[j] = "sync"
    /\ db' = [db EXCEPT ![j] = SetFailed(db[j], exc[j])]
    /\ terminal_writes' = [terminal_writes EXCEPT ![j] = @ + 1]
    /\ outcome' = [outcome EXCEPT ![j] = "raise"]
    /\ response' = [response EXCEPT ![j] = "500"]
    /\ pc' = [pc EXCEPT ![j] = "finally"]
    /\ UNCHANGED task_inputs
    /\ UNCHANGED tool_vars
    /\ UNCHANGED <<files, outputs, path, request_retries, document_text,
                   stage_outputs, exc, attempts,
                   form_query, query, crew_query, countdown>>

\* celery_worker.py:97-103: except Exception in the worker; FAILED is
\* committed, then self.retry either publishes the retry or re-raises exc.
analyze_document_task_except(j) ==
    /\ pc[j] = "except"
    /\ path[j] # "sync"
    /\ IF HasRecord(j)
       THEN /\ db' = [db EXCEPT ![j] = SetFailed(db[j], exc[j])]
            /\ terminal_writes' = [terminal_writes EXCEPT ![j] = @ + 1]
       ELSE UNCHANGED <<db, terminal_writes>>
    /\ IF RetryAllowed(request_retries[j])
       THEN /\ outcome' = [outcome EXCEPT ![j] = "retry"]
            /\ countdown' = [countdown EXCEPT
                               ![j] = RetryCountdown(request_retries[j])]
       ELSE /\ outcome' = [outcome EXCEPT ![j] = "raise"]
            /\ UNCHANGED countdown
    /\ pc' = [pc EXCEPT ![j] = "finally"]
    /\ UNCHANGED task_inputs
    /\ UNCHANGED tool_vars
    /\ UNCHANGED <<files, outputs, path, request_retries, document_text,
                   stage_outputs, exc, response, attempts,
                   form_query, query, crew_query>>

\* main.py:185-190: finally on the immediate path; the handler's locals end
\* with it.
analyze_document_finally(j) ==
    /\ pc[j] = "finally"
    /\ path[j] = "sync"
    /\ files' = RemoveTempFile(files, j)
    /\ document_text' = [document_text EXCEPT ![j] = NULL]
    /\ stage_outputs' = [stage_outputs EXCEPT ![j] = <<>>]
    /\ crew_query' = [crew_query EXCEPT ![j] = {}]
    /\ pc' = [pc EXCEPT ![j] = "done"]
    /\ UNCHANGED task_inputs
    /\ UNCHANGED tool_vars
    /\ UNCHANGED <<db, outputs, path, request_retries, exc, outcome, response,
                   attempts, terminal_writes,
                   form_query, query, countdown>>

\* celery_worker.py:105-111: finally in the worker; the task's locals end
\* with it.  A published retry is the same work item with
\* request.retries + 1.
analyze_document_task_finally(j) ==
    /\ pc[j] = "finally"
    /\ path[j] # "sync"
    /\ files' = RemoveTempFile(files, j)
    /\ document_text' = [document_text EXCEPT ![j] = NULL]
    /\ stage_outputs' = [stage_outputs EXCEPT ![j] = <<>>]
    /\ crew_query' = [crew_query EXCEPT ![j] = {}]
    /\ IF outcome[j] = "retry"
       THEN /\ pc' = [pc EXCEPT ![j] = "queued"]
            /\ request_retries' = [request_retries EXCEPT ![j] = @ + 1]
       ELSE /\ pc' = [pc EXCEPT ![j] = "done"]
            /\ UNCHANGED request_retries
    /\ UNCHANGED task_inputs
    /\ UNCHANGED tool_vars
    /\ UNCHANGED <<db, outputs, path, exc, outcome, response, attempts,
                   terminal_writes,
                   form_query, query, countdown>>

\* One step of the handler or of a worker attempt of job j.
Step(j) ==
    \/ analyze_document_create(j)
    \/ analyze_document_upload(j)
    \/ analyze_document_async_upload(j)
    \/ analyze_document_async_create(j)
    \/ analyze_document_async_delay(j)
    \/ analyze_document_async_delay_raises(j)
    \/ delay_unknown_id(j)
    \/ analyze_document_task_start(j)
    \/ extract(j)
    \/ task_returns(j)
    \/ task_raises(j)
    \/ commit_completed(j)
    \/ save_output_returns(j)
    \/ save_output_raises(j)
    \/ analyze_document_except(j)
    \/ analyze_document_task_except(j)
    \/ analyze_document_finally(j)
    \/ analyze_document_task_finally(j)

Next == \E j \in Jobs : Step(j)

Spec == Init /\ [][Next]_vars

\* Two uploads in flight at once: every interleaving of the steps of two
\* jobs, each on either path.
TwoJobs == {1, 2}

InitTwo == InitFor(TwoJobs) /\ ToolsIdle

NextTwo == \E j \in TwoJobs : Step(j)

SpecTwo == InitTwo /\ [][NextTwo]_vars

(***************************************************************************)
(* tools.py extract_pdf_text on a document that opens, page by page.       *)
(***************************************************************************)

\* Largest number of pages of a document and of atoms of a page's text.
MaxPages == 2
MaxPageLen == 3

\* All sequences over S of length at most n.
RECURSIVE SeqsUpTo(_, _)
SeqsUpTo(S, n) ==
    IF n = 0
    THEN {<<>>}
    ELSE LET shorter == SeqsUpTo(S, n - 1)
         IN  shorter \cup {Append(t, x) : t \in shorter, x \in S}

\* page.get_text() of a page: text and newlines.
PageTexts == SeqsUpTo({"a", "\n"}, MaxPageLen)

\* The documents fitz.open can return: any pages in any number.
Documents == SeqsUpTo(PageTexts, MaxPages)

\* "\n\n\n" in text
HasTripleNewline(text) ==
    \E i \in 1..(Len(text) - 2) :
        text[i] = "\n" /\ text[i + 1] = "\n" /\ text[i + 2] = "\n"

\* text.replace("\n\n\n", "\n\n"): one pass from the left over the
\* non-overlapping occurrences.
RECURSIVE replace_triple(_)
replace_triple(text) ==
    IF Len(text) < 3
    THEN text
    ELSE IF text[1] = "\n" /\ text[2] = "\n" /\ text[3] = "\n"
         THEN <<"\n", "\n">> \o replace_triple(SubSeq(text, 4, Len(text)))
         ELSE <<text[1]>> \o replace_triple(Tail(text))

\* tools.py:41-42: while "\n\n\n" in text: text = text.replace(...)
RECURSIVE collapse(_)
collapse(text) ==
    IF HasTripleNewline(text) THEN collapse(replace_triple(text)) ELSE text

\* tools.py:47: the text returned when nothing but whitespace was extracted.
NO_EXTRACTABLE_TEXT == <<"The PDF contained no extractable text.">>

ExtractInit ==
    /\ InitFor(Jobs)
    /\ doc_pages \in Documents
    /\ pages_read = 0
    /\ full_report = <<>>
    /\ extracted = {}
    /\ financial_text = <<>>
    /\ metric_out = {}
    /\ risk_out = {}

\* tools.py:39-43: one turn of "for page in doc": the page's text is
\* collapsed and appended to full_report with a newline.
extract_pdf_text_page ==
    /\ extracted = {}
    /\ pages_read < Len(doc_pages)
    /\ pages_read' = pages_read + 1
    /\ full_report' =
           full_report \o collapse(doc_pages[pages_read + 1]) \o <<"\n">>
    /\ UNCHANGED <<doc_pages, extracted, financial_text, metric_out, risk_out>>
    /\ UNCHANGED job_vars

\* tools.py:45-47: after the last page,
\*   return full_report.strip() if full_report.strip() else "The PDF ..."
extract_pdf_text_return ==
    /\ extracted = {}
    /\ pages_read = Len(doc_pages)
    /\ extracted' = {IF strip(full_report) # <<>>
                     THEN strip(full_report)
                     ELSE NO_EXTRACTABLE_TEXT}
    /\ UNCHANGED <<doc_pages, pages_read, full_report, financial_text,
                   metric_out, risk_out>>
    /\ UNCHANGED job_vars

ExtractNext == extract_pdf_text_page \/ extract_pdf_text_return

ExtractSpec == ExtractInit /\ [][ExtractNext]_vars

(***************************************************************************)
(* tools.py analyze_investment_data and assess_risk_factors: the string    *)
(* and regex operations they are built from.                               *)
(***************************************************************************)

Min(S) == CHOOSE x \in S : \A y \in S : x <= y

\* xs[:n]
Take(xs, n) == SubSeq(xs, 1, IF Len(xs) < n THEN Len(xs) ELSE n)

\* str.lower() on the atoms of the model's texts: the atoms with capital
\* letters and their lower-case forms; every other atom has none.
lower_atom(a) ==
    CASE a = "SEC"     -> "sec"
      [] a = "Debt"    -> "debt"
      [] a = "Revenue" -> "revenue"
      [] a = "MILLION" -> "million"
      [] a = "M"       -> "m"
      [] a = "B"       -> "b"
      [] a = "K"       -> "k"
      [] OTHER         -> a

lower(s) == [i \in 1..Len(s) |-> lower_atom(s[i])]

\* The occurrence test "sub in s".
Contains(s, sub) ==
    \E i \in 1..(Len(s) - Len(sub) + 1) :
        s[i] = sub[1] /\ SubSeq(s, i, i + Len(sub) - 1) = sub

\* s.split(sep): cut at the occurrences of sep, taken from the left.
RECURSIVE split(_, _)
split(s, sep) ==
    LET at == {i \in 1..(Len(s) - Len(sep) + 1) :
                  s[i] = sep[1] /\ SubSeq(s, i, i + Len(sep) - 1) = sep}
    IN  IF at = {}
        THEN <<s>>
        ELSE <<SubSeq(s, 1, Min(at) - 1)>>
                 \o split(SubSeq(s, Min(at) + Len(sep), Len(s)), sep)

\* [p.strip() for p in text.split(sep) if len(p.strip()) > longer_than]
StrippedPieces(text, sep, longer_than) ==
    LET pieces == split(text, sep)
        stripped == [i \in 1..Len(pieces) |-> strip(pieces[i])]
        Keep(piece) == Len(piece) > longer_than
    IN  SelectSeq(stripped, Keep)

\* tools.py:112-114 / 198-200: the paragraphs between blank lines, or, when
\* there are fewer than 5 of them, the lines longer than line_min.
Paragraphs(text, line_min) ==
    LET paragraphs == StrippedPieces(text, <<"\n", "\n">>, 0)
    IN  IF Len(paragraphs) < 5
        THEN StrippedPieces(text, <<"\n">>, line_min)
        ELSE paragraphs

\* The regex classes \d and [\d,], and the scale suffixes
\* (?:million|billion|M|B|K) under re.IGNORECASE.
Digit == {"0", "1", "2", "3", "4", "5", "6", "7", "8", "9"}
DigitOrComma == Digit \cup {","}
ScaleSuffix == {"million", "billion", "MILLION", "M", "B", "K", "m", "b", "k"}

\* Greedy X*: the first index from i on whose atom is not in S.
RECURSIVE SkipAll(_, _, _)
SkipAll(s, i, S) ==
    IF i <= Len(s) /\ s[i] \in S THEN SkipAll(s, i + 1, S) ELSE i

\* Greedy X?
SkipOne(s, i, S) == IF i <= Len(s) /\ s[i] \in S THEN i + 1 ELSE i

\* tools.py:100  money_pattern = \$[\d,]+\.?\d*\s*(?:million|billion|M|B|K)?
\* matched at index i: the index after the match, 0 if there is none.
MoneyMatchEnd(s, i) ==
    IF s[i] = "$" /\ i < Len(s) /\ s[i + 1] \in DigitOrComma
    THEN LET number == SkipAll(s, i + 1, DigitOrComma)
             point == SkipOne(s, number, {"."})
             decimals == SkipAll(s, point, Digit)
             space == SkipAll(s, decimals, Whitespace)
         IN  SkipOne(s, space, ScaleSuffix)
    ELSE 0

\* tools.py:101  pct_pattern = [\d]+\.?\d*\s*%  matched at index i: the index
\* after the match, 0 if there is none.
PctMatchEnd(s, i) ==
    IF s[i] \in Digit
    THEN LET number == SkipAll(s, i, Digit)
             point == SkipOne(s, number, {"."})
             decimals == SkipAll(s, point, Digit)
             space == SkipAll(s, decimals, Whitespace)
         IN  IF space <= Len(s) /\ s[space] = "%" THEN space + 1 ELSE 0
    ELSE 0

\* re.findall(money_pattern, s, re.IGNORECASE) from index "from" on: the
\* matches from the left, each search resuming after the last match.
RECURSIVE findall_money(_, _)
findall_money(s, from) ==
    LET starts == {i \in from..Len(s) : MoneyMatchEnd(s, i) # 0}
    IN  IF starts = {}
        THEN <<>>
        ELSE <<SubSeq(s, Min(starts), MoneyMatchEnd(s, Min(starts)) - 1)>>
                 \o findall_money(s, MoneyMatchEnd(s, Min(starts)))

\* re.findall(pct_pattern, s)
RECURSIVE findall_pct(_, _)
findall_pct(s, from) ==
    LET starts == {i \in from..Len(s) : PctMatchEnd(s, i) # 0}
    IN  IF starts = {}
        THEN <<>>
        ELSE <<SubSeq(s, Min(starts), PctMatchEnd(s, Min(starts)) - 1)>>
                 \o findall_pct(s, PctMatchEnd(s, Min(starts)))

\* re.search(money_pattern, s, re.IGNORECASE) / re.search(pct_pattern, s)
search_money(s) == \E i \in 1..Len(s) : MoneyMatchEnd(s, i) # 0
search_pct(s) == \E i \in 1..Len(s) : PctMatchEnd(s, i) # 0

\* list(dict.fromkeys(xs)): the first occurrence of each element, in order.
RECURSIVE unique(_)
unique(xs) ==
    IF xs = <<>>
    THEN <<>>
    ELSE LET before == unique(SubSeq(xs, 1, Len(xs) - 1))
             last == xs[Len(xs)]
         IN  IF \E i \in 1..Len(before) : before[i] = last
             THEN before
             ELSE Append(before, last)

\* [x.strip() for x in xs]
StripEach(xs) == [i \in 1..Len(xs) |-> strip(xs[i])]

\* [kw for kw in keywords if kw in para_lower]
Matched(para, keywords) ==
    LET para_lower == lower(para)
        Occurs(kw) == Contains(para_lower, kw)
    IN  SelectSeq(keywords, Occurs)

(***************************************************************************)
(* tools.py analyze_investment_data (the Metric Extractor).                *)
(***************************************************************************)

\* tools.py:103-110: the vocabulary, a keyword being the atoms of its words.
metric_keywords ==
    <<<<"revenue">>, <<"net", " ", "income">>,
      <<"gross", " ", "profit">>, <<"operating", " ", "income">>,
      <<"ebitda">>, <<"eps">>, <<"earnings", " ", "per", " ", "share">>,
      <<"free", " ", "cash", " ", "flow">>,
      <<"operating", " ", "cash", " ", "flow">>,
      <<"total", " ", "assets">>, <<"total", " ", "liabilities">>,
      <<"shareholders", " ", "equity">>, <<"debt">>, <<"margin">>,
      <<"growth">>, <<"year-over-year">>, <<"quarter">>, <<"guidance">>,
      <<"outlook">>, <<"dividend">>, <<"buyback">>, <<"repurchase">>>>

\* tools.py:97
NO_FINANCIAL_DATA == "No financial data provided for analysis."

\* Variant of IsBlankInput without the whitespace test.
IsBlankInput_only_empty(text) == text = <<>>

\* tools.py:95 / 169: if not financial_text or financial_text.strip() == ""
IsBlankInput(text) == text = <<>> \/ strip(text) = <<>>

\* Variant of IsKeySection that takes a keyword or a figure as enough.
IsKeySection_keyword_or_figure(para) ==
    \/ Matched(para, metric_keywords) # <<>>
    \/ search_money(para)
    \/ search_pct(para)

\* tools.py:136-137: matched and (re.search(money_pattern, para, ...) or
\* re.search(pct_pattern, para))
IsKeySection(para) ==
    /\ Matched(para, metric_keywords) # <<>>
    /\ search_money(para) \/ search_pct(para)

\* tools.py:138: (para[:600], matched)
MetricSection(para) ==
    [text |-> Take(para, 600), keywords |-> Matched(para, metric_keywords)]

\* tools.py:119-122 / 127-130: the first "cap" distinct matches, each
\* stripped when it is written to the output.
ReportedFigures(matches, cap) == StripEach(Take(unique(matches), cap))

\* tools.py:95-153.  What the function returns, as the parts of its text:
\* message: the "no data" text, or NULL when the extraction ran;
\* money_total, money / pct_total, pcts: the two figure blocks;
\* sections_found, sections: the "Key financial sections" block;
\* no_figures: the "No structured financial figures detected." fallback
\* (len(output) <= 2).
analyze_investment_data(text) ==
    IF IsBlankInput(text)
    THEN [message |-> NO_FINANCIAL_DATA, money_total |-> 0, money |-> <<>>,
          pct_total |-> 0, pcts |-> <<>>, sections_found |-> 0,
          sections |-> <<>>, no_figures |-> FALSE]
    ELSE LET paragraphs == Paragraphs(text, 30)
             money_matches == findall_money(text, 1)
             pct_matches == findall_pct(text, 1)
             key == SelectSeq(paragraphs, IsKeySection)
             metric_sections == [i \in 1..Len(key) |-> MetricSection(key[i])]
         IN  [message |-> NULL,
              money_total |-> Len(money_matches),
              money |-> ReportedFigures(money_matches, 20),
              pct_total |-> Len(pct_matches),
              pcts |-> ReportedFigures(pct_matches, 15),
              sections_found |-> Len(metric_sections),
              sections |-> Take(metric_sections, 10),
              no_figures |-> /\ money_matches = <<>>
                             /\ pct_matches = <<>>
                             /\ Len(metric_sections) = 0]

(***************************************************************************)
(* tools.py assess_risk_factors (the Risk Extractor).                      *)
(***************************************************************************)

\* tools.py:175-196: the categories in the order of the dict.
risk_categories ==
    <<
       [name |-> "Credit & Debt Risk",
        keywords |->
          <<<<"debt">>, <<"default">>, <<"credit">>, <<"leverage">>,
            <<"borrowing">>, <<"interest", " ", "expense">>,
            <<"covenant">>, <<"downgrade">>>>],
       [name |-> "Market & Volatility Risk",
        keywords |->
          <<<<"volatility">>, <<"market", " ", "risk">>, <<"currency">>,
            <<"exchange", " ", "rate">>, <<"interest", " ", "rate">>,
            <<"commodity">>, <<"inflation">>>>],
       [name |-> "Legal & Regulatory Risk",
        keywords |->
          <<<<"litigation">>, <<"regulatory">>, <<"compliance">>,
            <<"lawsuit">>, <<"investigation">>, <<"penalty">>,
            <<"sanction">>, <<"SEC">>>>],
       [name |-> "Operational Risk",
        keywords |->
          <<<<"restructuring">>, <<"impairment">>, <<"write-off">>,
            <<"supply", " ", "chain">>, <<"cybersecurity">>,
            <<"disruption">>, <<"workforce">>>>],
       [name |-> "Financial Health Concerns",
        keywords |->
          <<<<"decline">>, <<"loss">>, <<"adverse">>, <<"uncertainty">>,
            <<"contingent">>, <<"liability">>,
            <<"going", " ", "concern">>, <<"liquidity", " ", "risk">>>>]
    >>

\* tools.py:171
NO_RISK_DATA == "No financial data provided for risk assessment."

\* tools.py:206-211: the paragraphs with a keyword of the category, as
\* (para[:500], matched_terms).
Relevant(paragraphs, keywords) ==
    LET Hit(para) == Matched(para, keywords) # <<>>
        hits == SelectSeq(paragraphs, Hit)
    IN  [i \in 1..Len(hits) |->
            [text |-> Take(hits[i], 500), terms |-> Matched(hits[i], keywords)]]

\* Variant of RiskSection that writes every excerpt of the category.
RiskSection_uncapped(category, paragraphs) ==
    [category |-> category.name,
     found |-> Len(Relevant(paragraphs, category.keywords)),
     excerpts |-> Relevant(paragraphs, category.keywords)]

\* tools.py:213-219: the block of one category: its name, len(relevant) and
\* relevant[:5].
RiskSection(category, paragraphs) ==
    [category |-> category.name,
     found |-> Len(Relevant(paragraphs, category.keywords)),
     excerpts |-> Take(Relevant(paragraphs, category.keywords), 5)]

RECURSIVE SumFound(_)
SumFound(sections) ==
    IF sections = <<>>
    THEN 0
    ELSE Head(sections).found + SumFound(Tail(sections))

\* tools.py:169-228.  What the function returns, as the parts of its text:
\* message: the "no data" text, or NULL when the extraction ran;
\* sections: the category blocks written (those with a relevant paragraph);
\* total_extracts; none_detected: the "No explicit risk-related sections
\* detected" fallback (total_extracts == 0).
assess_risk_factors(text) ==
    IF IsBlankInput(text)
    THEN [message |-> NO_RISK_DATA, sections |-> <<>>, total_extracts |-> 0,
          none_detected |-> FALSE]
    ELSE LET paragraphs == Paragraphs(text, 50)
             blocks == [c \in 1..Len(risk_categories) |->
                           RiskSection(risk_categories[c], paragraphs)]
             Written(block) == block.found > 0
         IN  [message |-> NULL,
              sections |-> SelectSeq(blocks, Written),
              total_extracts |-> SumFound(blocks),
              none_detected |-> SumFound(blocks) = 0]

(***************************************************************************)
(* The texts the two extractors are called with.                           *)
(***************************************************************************)

\* Largest number of copies of a paragraph in a text, and largest number of
\* atoms of a text of figures.
MaxRepeat == 11
MaxFigureLen == 5

\* n atoms of plain text.
Pad(n) == [i \in 1..n |-> "x"]

\* Short paragraphs: keyword and figures; keyword alone; figure alone;
\* keywords of two risk categories; a keyword in capitals; neither.
ShortParagraphs ==
    { <<"Revenue", " ", "grew", " ", "5", "%", " ", "to", " ", "$", "5", " ",
        "million">>,
      <<"revenue">>,
      <<"$", "5">>,
      <<"Debt", " ", "and", " ", "volatility">>,
      <<"SEC">>,
      <<"weather">> }

\* Paragraphs longer than the line thresholds (30, 50) and longer than the
\* excerpt lengths (500, 600).
LongParagraphs ==
    { <<"margin", " ", "5", "%", " ", "litigation", " ">> \o Pad(50),
      <<"revenue", " ", "$", "5", " ", "loss", " ">> \o Pad(600) }

\* The blank-line, single-newline and triple-newline separators between
\* paragraphs.
Separators == {<<"\n">>, <<"\n", "\n">>, <<"\n", "\n", "\n">>}

\* n copies of paragraph p, each after the separator.
RECURSIVE Repeated(_, _, _)
Repeated(p, n, sep) ==
    IF n = 0 THEN <<>> ELSE sep \o p \o Repeated(p, n - 1, sep)

\* A first paragraph (or none) followed by up to MaxRepeat copies of a
\* short one.
ParagraphTexts ==
    {first \o Repeated(p, n, sep) :
        first \in ShortParagraphs \cup LongParagraphs \cup {<<>>},
        p \in ShortParagraphs, n \in 0..MaxRepeat, sep \in Separators}

\* Every text of at most MaxFigureLen atoms over "$", a digit, a space and
\* "%" (the empty and the whitespace-only ones among them).
FigureTexts == SeqsUpTo({"$", "5", " ", "%"}, MaxFigureLen)

Texts == ParagraphTexts \cup FigureTexts \cup {<<"\n">>, <<" ", "\n", " ">>}

ToolsInit ==
    /\ InitFor(Jobs)
    /\ doc_pages = <<>>
    /\ pages_read = 0
    /\ full_report = <<>>
    /\ extracted = {}
    /\ financial_text \in Texts
    /\ metric_out = {}
    /\ risk_out = {}

\* tools.py:82-153: a call analyze_investment_data(financial_text) returns.
analyze_investment_data_call ==
    /\ metric_out = {}
    /\ metric_out' = {analyze_investment_data(financial_text)}
    /\ UNCHANGED <<doc_pages, pages_read, full_report, extracted,
                   financial_text, risk_out>>
    /\ UNCHANGED job_vars

\* tools.py:157-228: a call assess_risk_factors(financial_text) returns.
assess_risk_factors_call ==
    /\ risk_out = {}
    /\ risk_out' = {assess_risk_factors(financial_text)}
    /\ UNCHANGED <<doc_pages, pages_read, full_report, extracted,
                   financial_text, metric_out>>
    /\ UNCHANGED job_vars

ToolsNext == analyze_investment_data_call \/ assess_risk_factors_call

ToolsSpec == ToolsInit /\ [][ToolsNext]_vars

(***************************************************************************)
(* Properties of the job record.                                           *)
(***************************************************************************)
Terminal == {COMPLETED, FAILED}

\* The handler / worker attempt of job j has finished (returned or raised
\* out of its finally block) and none is running.
AttemptFinished(j) ==
    \/ pc[j] = "done" /\ path[j] # "none"
    \/ pc[j] = "queued" /\ attempts[j] > 0

\* The worker gave up on job j: its last attempt raised and no retry was
\* published.
RetriesExhausted(j) ==
    /\ path[j] = "async"
    /\ outcome[j] = "raise"
    /\ pc[j] = "done"

\* C1: in every reachable state of every job, status is COMPLETED if and
\* only if result is non-null and error is null.
C1_CompletedIffResultAndNoError ==
    \A j \in DOMAIN db :
        (db[j].status = COMPLETED) <=>
            (db[j].result # NULL /\ db[j].error = NULL)

\* C2: in every reachable state of every job, status is FAILED if and only
\* if error is non-null and result is null.
C2_FailedIffErrorAndNoResult ==
    \A j \in DOMAIN db :
        (db[j].status = FAILED) <=>
            (db[j].error # NULL /\ db[j].result = NULL)

\* C3: in every reachable state of every job, completed_at is non-null if
\* and only if status is COMPLETED or FAILED.
C3_CompletedAtIffTerminal ==
    \A j \in DOMAIN db :
        (db[j].completed_at # NULL) <=> (db[j].status \in Terminal)

\* C4: once the committed status of a job is FAILED, no step changes it.
C4_FailedIsFinal ==
    [][\A j \in DOMAIN db : db[j].status = FAILED => db'[j].status = FAILED]_vars

\* C5: once the committed status of a job is COMPLETED, no step changes the
\* status or the result.
C5_CompletedIsFinal ==
    [][\A j \in DOMAIN db :
          db[j].status = COMPLETED =>
              /\ db'[j].status = COMPLETED
              /\ db'[j].result = db[j].result]_vars

\* C6: over the whole life of a job at most one committed write sets its
\* status to COMPLETED or FAILED (a step that commits a terminal status is
\* the job's first such step), and result, error and completed_at, once
\* assigned, are not assigned again.
C6_AtMostOneTerminalWrite ==
    [][\A j \in Jobs :
          /\ terminal_writes'[j] > terminal_writes[j] => terminal_writes[j] = 0
          /\ j \in DOMAIN db =>
                /\ db[j].result # NULL => db'[j].result = db[j].result
                /\ db[j].error # NULL => db'[j].error = db[j].error
                /\ db[j].completed_at # NULL =>
                       db'[j].completed_at = db[j].completed_at]_vars

\* C7: in every reachable state of a job, result and error are never both
\* non-null.
C7_ResultErrorExclusive ==
    \A j \in DOMAIN db : ~(db[j].result # NULL /\ db[j].error # NULL)

\* C8: a queued job is never executed more than max_retries + 1 = 3 times,
\* and when every attempt raised (the worker gave up) it was executed
\* exactly 3 times, no work item is left and its status is FAILED.
C8_RetryBound ==
    \A j \in Jobs :
        /\ attempts[j] <= max_retries + 1
        /\ RetriesExhausted(j) =>
              /\ attempts[j] = max_retries + 1
              /\ attempts[j] = 3
              /\ db[j].status = FAILED
              /\ ~ENABLED analyze_document_task_start(j)

\* A queued job whose crew raised in all three attempts.
C8_Witness ==
    \E j \in Jobs :
        /\ RetriesExhausted(j)
        /\ attempts[j] = 3
        /\ exc[j] \in TaskErrors
        /\ db[j].result = NULL

\* C9: when the retry budget of a queued job is exhausted its status is
\* FAILED and its error column is the message of the exception raised by
\* the last attempt.
C9_LastErrorRecorded ==
    \A j \in Jobs :
        RetriesExhausted(j) =>
            /\ db[j].status = FAILED
            /\ db[j].error = exc[j]

\* Exhausted budget where an earlier attempt failed with another message:
\* the result column shows an earlier attempt got as far as the report
\* write (WriteError), the last attempt failed in a crew task.
C9_Witness ==
    \E j \in Jobs :
        /\ RetriesExhausted(j)
        /\ db[j].result # NULL
        /\ exc[j] \in TaskErrors
        /\ db[j].error = exc[j]

HandlerReturned(j) == path[j] = "sync" /\ pc[j] = "done"

\* C11: whenever the immediate-path handler has returned, with a success or
\* with any error response, the row it created is COMPLETED or FAILED.
C11_ImmediateEndsTerminal ==
    \A j \in Jobs :
        HandlerReturned(j) => HasRecord(j) /\ db[j].status \in Terminal

\* Text values with which extract_pdf_text reports a missing or unreadable
\* document.
ExtractionErrorTexts == {"Error: File not found", "Error opening PDF"}

\* C12: when the document is missing or unparsable at extraction, extraction
\* does not return text to the caller, no crew task runs on that attempt and
\* the attempt does not commit COMPLETED.
C12_ExtractionFailureStopsAttempt ==
    \A j \in Jobs :
        document_text[j] \in ExtractionErrorTexts =>
            /\ pc[j] \notin {"kickoff", "save"}
            /\ stage_outputs[j] = <<>>
            /\ db[j].status # COMPLETED

\* C13: on both paths a crew run executes verification, financial analysis,
\* risk assessment, investment analysis in that order, one at a time: the
\* outputs so far are always the first tasks of that list, a step adds at
\* most the next one, and after a successful run (the COMPLETED commit)
\* there are exactly 4 outputs.
C13_StagesInOrder ==
    [][\A j \in Jobs :
          LET order == <<"verification_task", "financial_analysis_task",
                         "risk_assessment_task", "investment_analysis_task">>
              before == stage_outputs[j]
              after == stage_outputs'[j]
          IN  /\ Len(after) <= 4
              /\ after = SubSeq(order, 1, Len(after))
              /\ \/ after = before
                 \/ after = <<>>
                 \/ Len(after) = Len(before) + 1 /\ pc[j] = "kickoff"
              /\ pc'[j] = "save" => Len(after) = 4]_vars

\* A queued job whose crew has just finished all four tasks.
C13_Witness ==
    \E j \in Jobs :
        /\ path[j] = "async"
        /\ pc[j] = "save"
        /\ Len(stage_outputs[j]) = 4
        /\ stage_outputs[j][3] = "risk_assessment_task"
        /\ db[j].status = COMPLETED

\* A crew task raised in the running attempt of job j.
TaskFailedInAttempt(j) ==
    pc[j] \in {"except", "finally"} /\ exc[j] \in TaskErrors

\* C14: once a crew task has raised in an attempt, no step of that attempt
\* runs a further task, commits COMPLETED, writes the result column or
\* writes the report file.
C14_FailedStageAbortsAttempt ==
    [][\A j \in Jobs :
          TaskFailedInAttempt(j) =>
              /\ Len(stage_outputs'[j]) <= Len(stage_outputs[j])
              /\ db'[j].status # COMPLETED
              /\ db'[j].result = db[j].result
              /\ j \in outputs' => j \in outputs]_vars

\* An attempt in which a task raised, after its except block.
C14_Witness ==
    \E j \in Jobs :
        /\ TaskFailedInAttempt(j)
        /\ pc[j] = "finally"
        /\ db[j].status = FAILED
        /\ db[j].result = NULL
        /\ j \notin outputs

\* C15: a row is created with status PENDING before any extraction or crew
\* work of the job, and in every attempt the text is extracted (and every
\* task run) only while the committed status is PROCESSING.
C15_PendingThenProcessingBeforeWork ==
    [][\A j \in Jobs :
          /\ (~HasRecord(j) /\ j \in DOMAIN db') =>
                /\ db'[j].status = PENDING
                /\ document_text[j] = NULL /\ document_text'[j] = NULL
                /\ stage_outputs[j] = <<>> /\ stage_outputs'[j] = <<>>
          /\ (document_text[j] = NULL /\ document_text'[j] # NULL) =>
                HasRecord(j) /\ db[j].status = PROCESSING
          /\ Len(stage_outputs'[j]) > Len(stage_outputs[j]) =>
                HasRecord(j) /\ db[j].status = PROCESSING]_vars

\* A retry attempt of a queued job that has extracted its text.
C15_Witness ==
    \E j \in Jobs :
        /\ path[j] = "async"
        /\ attempts[j] = 2
        /\ pc[j] = "kickoff"
        /\ document_text[j] # NULL
        /\ db[j].status = PROCESSING

\* C16: the report write of a job is attempted only after COMPLETED, with
\* the result, has been committed for the job, and never in an attempt that
\* ends in failure (that reaches its except block).
C16_ReportOnlyOnCompleted ==
    [][\A j \in Jobs :
          (pc[j] = "save" /\ pc'[j] # "save") =>
              /\ db[j].status = COMPLETED
              /\ db[j].result # NULL
              /\ pc'[j] # "except"]_vars

\* C17: the countdown of the retry published after attempt number k failed
\* is 30 * k seconds: 30 after the first attempt, 60 after the second.
C17_LinearBackoff ==
    \A j \in Jobs :
        (outcome[j] = "retry" /\ pc[j] \in {"finally", "queued"}) =>
            /\ attempts[j] \in {1, 2}
            /\ countdown[j] = 30 * attempts[j]
            /\ attempts[j] = 1 => countdown[j] = 30
            /\ attempts[j] = 2 => countdown[j] = 60

\* The second retry is waiting in the broker.
C17_Witness ==
    \E j \in Jobs :
        /\ outcome[j] = "retry"
        /\ pc[j] = "queued"
        /\ attempts[j] = 2
        /\ countdown[j] = 60

\* A string that is empty or holds whitespace only.
Blank(q) == \A i \in 1..Len(q) : q[i] \in Whitespace

\* C18: for a submission whose query is empty or whitespace-only, on both
\* paths, the query given to the crew is the fixed fallback string.
C18_BlankQueryFallsBack ==
    \A j \in Jobs :
        (path[j] \in {"sync", "async"} /\ Blank(form_query[j])) =>
            \A q \in crew_query[j] :
                q = <<"Analyze this financial document for investment insights">>

\* A queued job submitted with a whitespace-only query, its crew running.
C18_Witness ==
    \E j \in Jobs :
        /\ path[j] = "async"
        /\ form_query[j] = <<" ">>
        /\ pc[j] = "kickoff"
        /\ crew_query[j] = {DEFAULT_QUERY}

\* C19: the query column of the row is the fallback string whenever the
\* submitted query is blank, it equals the query the crew is run with, and
\* it does not change after creation.
C19_StoredQuery ==
    [][\A j \in Jobs :
          j \in DOMAIN db' =>
              /\ (path'[j] \in {"sync", "async"} /\ Blank(form_query'[j])) =>
                    db'[j].query = DEFAULT_QUERY
              /\ \A q \in crew_query'[j] : db'[j].query = q
              /\ HasRecord(j) => db'[j].query = db[j].query]_vars

\* C20: when the worker finds no row for the work item's id, the steps of
\* that work item run no extraction and no task, publish no retry, write no
\* report and leave the table as it is; the item is executed once.
C20_NotFoundDropsWork ==
    [][\A j \in Jobs :
          (path[j] = "unknown" /\ pc'[j] # pc[j]) =>
              /\ db' = db
              /\ ~HasRecord(j)
              /\ pc'[j] \in {"finally", "done"}
              /\ attempts'[j] = 1
              /\ request_retries'[j] = 0
              /\ countdown'[j] = 0
              /\ document_text'[j] = NULL
              /\ crew_query'[j] = {}
              /\ stage_outputs'[j] = <<>>
              /\ outputs' = outputs]_vars

\* The work item of an id without a row, dropped after one execution.
C20_Witness ==
    \E j \in Jobs :
        /\ path[j] = "unknown"
        /\ pc[j] = "done"
        /\ outcome[j] = "notfound"
        /\ ~HasRecord(j)
        /\ request_retries[j] = 0
        /\ countdown[j] = 0

\* C27: on the queued path the temporary file is deleted only by the job's
\* final exit: while a work item of the job is waiting or an attempt of it
\* is running (every retry included), the file of the work item exists.
C27_FileKeptForRetries ==
    \A j \in Jobs :
        (path[j] = "async" /\ pc[j] \in {"queued", "extract", "kickoff"}) =>
            files[j] # ABSENT

\* The submitting handler of queued job j has left (returned or raised).
SubmissionLeft(j) ==
    path[j] = "async" /\ pc[j] \notin {"new", "async_written", "async_committed"}

\* A work item of job j is in the broker or being executed by a worker.
WorkItemExists(j) ==
    pc[j] \in {"queued", "extract", "kickoff", "save", "except", "finally"}

\* C28: on the queued path a worker that executes the work item of a
\* submission finds the job's row, and once the submitting handler has left,
\* a temporary file still on disk has both its row and its work item.
C28_RecordBeforeWorkItem ==
    \A j \in Jobs :
        path[j] = "async" =>
            /\ (WorkItemExists(j) \/ attempts[j] > 0) => HasRecord(j)
            /\ (SubmissionLeft(j) /\ files[j] # ABSENT) =>
                   HasRecord(j) /\ WorkItemExists(j)

\* The step taken is a step of job a (every action of a job moves its pc or
\* extends its stage outputs).
StepOf(a) == pc'[a] # pc[a] \/ stage_outputs'[a] # stage_outputs[a]

\* The crew of job b is running on the Task objects of the API process.
RunsOnSharedTasks(b) == path[b] = "sync" /\ pc[b] = "kickoff"

\* C21: of two jobs in flight, a step of one leaves the other's row, its
\* temporary file, its extracted text and query, its stage outputs and the
\* inputs its running crew's tasks hold unchanged.
C21_JobsShareNothing ==
    [][\A a, b \in TwoJobs :
          (a # b /\ StepOf(a)) =>
              /\ b \in DOMAIN db => (b \in DOMAIN db' /\ db'[b] = db[b])
              /\ files'[b] = files[b]
              /\ document_text'[b] = document_text[b]
              /\ crew_query'[b] = crew_query[b]
              /\ stage_outputs'[b] = stage_outputs[b]
              /\ RunsOnSharedTasks(b) => task_inputs' = task_inputs]_vars

\* C22: the text a successful extraction returns, for any pages, holds no
\* three consecutive newlines, page boundaries included.
C22_NoTripleNewline ==
    \A text \in extracted : ~HasTripleNewline(text)

(***************************************************************************)
(* Properties of the two extractors.                                       *)
(***************************************************************************)
Range(xs) == {xs[i] : i \in 1..Len(xs)}

\* The index of the first occurrence of x in xs.
FirstIndex(x, xs) == Min({k \in 1..Len(xs) : xs[k] = x})

\* The figures, as written to the output, are distinct, in the order in
\* which they are first seen among the matches, and at most cap many.
UniqueFirstSeenCapped(reported, matches, cap) ==
    LET seen == StripEach(matches)
    IN  /\ Len(reported) <= cap
        /\ \A i \in 1..Len(reported) : reported[i] \in Range(seen)
        /\ \A i, j \in 1..Len(reported) :
               i < j => FirstIndex(reported[i], seen)
                            < FirstIndex(reported[j], seen)

\* C23: the monetary figures and the percentage figures the Metric
\* Extractor reports are each without duplicates as reported, in first-seen
\* order of the text, and at most 20 and 15 respectively.
C23_FiguresUniqueOrderedCapped ==
    \A out \in metric_out :
        /\ UniqueFirstSeenCapped(out.money,
                                 findall_money(financial_text, 1), 20)
        /\ UniqueFirstSeenCapped(out.pcts,
                                 findall_pct(financial_text, 1), 15)

\* C24: every key financial section the Metric Extractor reports is the
\* first 600 atoms of a paragraph that holds a vocabulary keyword and a
\* monetary or percentage figure; at most 10 sections are reported.
C24_KeySectionsKeywordAndFigure ==
    \A out \in metric_out :
        /\ Len(out.sections) <= 10
        /\ \A i \in 1..Len(out.sections) :
              /\ Len(out.sections[i].text) <= 600
              /\ \E para \in Range(Paragraphs(financial_text, 30)) :
                    /\ out.sections[i].text = Take(para, 600)
                    /\ \E k \in 1..Len(metric_keywords) :
                          Contains(lower(para), metric_keywords[k])
                    /\ \/ findall_money(para, 1) # <<>>
                       \/ findall_pct(para, 1) # <<>>

\* More than 10 key sections found, 10 reported, one of them cut to 600.
C24_Witness ==
    \E out \in metric_out :
        /\ out.sections_found > 10
        /\ Len(out.sections) = 10
        /\ \E i \in 1..Len(out.sections) : Len(out.sections[i].text) = 600
        /\ \E para \in Range(Paragraphs(financial_text, 30)) :
              Len(para) > 600

\* The paragraphs of the text with a keyword of category number c.
RiskHits(c) ==
    LET Hit(para) == Matched(para, risk_categories[c].keywords) # <<>>
    IN  SelectSeq(Paragraphs(financial_text, 50), Hit)

\* C25: the Risk Extractor reports, for each of the five categories on its
\* own, the paragraphs with a keyword of that category (a paragraph with
\* keywords of several categories under each of them): at most the first 5
\* per category, each cut to 500 atoms; the "no explicit risk sections"
\* fallback is written exactly when no category has a hit.
C25_CategoriesIndependent ==
    \A out \in risk_out :
        out.message = NULL =>
            /\ \A c \in 1..Len(risk_categories) :
                  LET blocks == {i \in 1..Len(out.sections) :
                                    out.sections[i].category
                                        = risk_categories[c].name}
                  IN  IF RiskHits(c) = <<>>
                      THEN blocks = {}
                      ELSE /\ Cardinality(blocks) = 1
                           /\ \A i \in blocks :
                                 LET shown == out.sections[i].excerpts
                                 IN  /\ Len(shown) <= 5
                                     /\ Len(shown) =
                                            Len(Take(RiskHits(c), 5))
                                     /\ \A e \in 1..Len(shown) :
                                           /\ Len(shown[e].text) <= 500
                                           /\ shown[e].text =
                                                  Take(RiskHits(c)[e], 500)
            /\ out.none_detected <=>
                  \A c \in 1..Len(risk_categories) : RiskHits(c) = <<>>

\* A paragraph reported under two categories, more than 5 hits in a
\* category, and an excerpt cut to 500.
C25_Witness ==
    \E out \in risk_out :
        /\ \E i, k \in 1..Len(out.sections) :
              /\ i # k
              /\ out.sections[i].found > 5
              /\ Len(out.sections[i].excerpts) = 5
              /\ out.sections[i].excerpts[1].text
                     = out.sections[k].excerpts[1].text
        /\ \E i \in 1..Len(out.sections) :
              Len(out.sections[i].excerpts[1].text) = 500
        /\ ~out.none_detected

\* C26: for an empty or whitespace-only text each extractor returns its
\* "no data" message and nothing extracted; for any other text each returns
\* an extraction.
C26_BlankInputNoData ==
    /\ Blank(financial_text) =>
          /\ \A out \in metric_out :
                /\ out.message = "No financial data provided for analysis."
                /\ out.money = <<>> /\ out.pcts = <<>>
                /\ out.sections = <<>>
                /\ ~out.no_figures
          /\ \A out \in risk_out :
                /\ out.message
                       = "No financial data provided for risk assessment."
                /\ out.sections = <<>>
                /\ ~out.none_detected
    /\ ~Blank(financial_text) =>
          /\ \A out \in metric_out : out.message = NULL
          /\ \A out \in risk_out : out.message = NULL

\* Both extractors have returned for a text of spaces and a newline.
C26_Witness ==
    /\ financial_text = <<" ", "\n", " ">>
    /\ \E out \in metric_out : out.message = NO_FINANCIAL_DATA
    /\ \E out \in risk_out : out.message = NO_RISK_DATA

\* C29: for every keyword k of every category, a paragraph that holds k in
\* any letter case is reported under that category, and, when it is among
\* the excerpts written, with k among its indicators.
C29_EveryKeywordHits ==
    \A out \in risk_out :
        out.message = NULL =>
            \A c \in 1..Len(risk_categories) :
                \A k \in Range(risk_categories[c].keywords) :
                    \A para \in Range(Paragraphs(financial_text, 50)) :
                        Contains(lower(para), lower(k)) =>
                            \E i \in 1..Len(out.sections) :
                                /\ out.sections[i].category
                                       = risk_categories[c].name
                                /\ out.sections[i].found <= 5 =>
                                      \E e \in Range(out.sections[i].excerpts) :
                                          /\ e.text = Take(para, 500)
                                          /\ k \in Range(e.terms)

====
